---- MODULE Spec2Model ----
(***************************************************************************)
(* Model of marbleStorage.py: the parametric build of a serpentine marble  *)
(* track housing.  The script is straight-line code: it reads the          *)
(* module-level parameters, builds the centreline path, sweeps the tube,   *)
(* builds the housing and (once more) the window cutouts.                  *)
(*                                                                         *)
(* Numbers.  Python floats are modelled as fixed-point integers with       *)
(* Scale units per millimetre (and Scale units per 1.0 for dimensionless   *)
(* factors).  A product of two such numbers is Mul(a, b).  The parameter   *)
(* grids below are chosen so that every product and quotient the code      *)
(* computes is exact on this grid (see ArithmeticExact).                   *)
(*                                                                         *)
(* Solids.  The geometry kernel is external.  A solid is the set of        *)
(* points it occupies; space is partitioned into the atoms of the Boolean  *)
(* algebra generated by the primitive solids, so union is \cup and cut is  *)
(* set difference, and an identity that holds here holds for all solids.   *)
(***************************************************************************)
EXTENDS Integers, Sequences, FiniteSets

VARIABLES
    marble_radius, clearance, marbles_per_layer, slope, turn_factor,
    outlet_factor, wall_thickness, enable_fillet, fillet_radius,
    enable_windows, window_height_factor,
    pc,        \* the statement the script executes next
    path,      \* line 276
    groove,    \* line 277
    bb,        \* make_storage local
    box,       \* make_storage local
    ground,    \* make_storage local
    result,    \* make_storage local
    storage,   \* line 278
    windows,   \* line 279
    trace,     \* kernel operations of make_storage, in the order performed
    failed     \* the fillet attempts of make_storage that raised

params == <<marble_radius, clearance, marbles_per_layer, slope, turn_factor,
            outlet_factor, wall_thickness, enable_fillet, fillet_radius,
            enable_windows, window_height_factor>>

vars == <<marble_radius, clearance, marbles_per_layer, slope, turn_factor,
          outlet_factor, wall_thickness, enable_fillet, fillet_radius,
          enable_windows, window_height_factor,
          pc, path, groove, bb, box, ground, result, storage, windows, trace,
          failed>>

-----------------------------------------------------------------------------
(* Fixed-point arithmetic *)

Scale == 10 * 100

Mul(a, b) == (a * b) \div Scale

Max(S) == CHOOSE x \in S : \A y \in S : y <= x
Min(S) == CHOOSE x \in S : \A y \in S : x <= y

None == "None"

-----------------------------------------------------------------------------
(* Parameter grids *)

MaxMarbles == 2
MaxClearance == 2

MarbleRadii == {1 * Scale, 23 * Scale}
Clearances == {k * Scale : k \in 0..MaxClearance}
MarblesPerLayer == 1..MaxMarbles
Slopes == {10, 30}
TurnFactors == {500, 1300}
OutletFactors == {1300}
WallThicknesses == {5 * Scale}
FilletRadii == {4 * Scale}
WindowHeightFactors == {100, 800, 4000}

-----------------------------------------------------------------------------
(* DERIVED VALUES *)

tube_radius == marble_radius + clearance
turn_radius == Mul(tube_radius, turn_factor)
outlet_length == Mul(tube_radius, outlet_factor)

-----------------------------------------------------------------------------
(* PATH GENERATION: the locals of make_marble_path *)

layer1_len == marbles_per_layer * tube_radius * 2
layer2_len == (marbles_per_layer - 1) * tube_radius * 2
(* bug: the extra tube radius of layer 3 is dropped *)
layer3_len_short == (marbles_per_layer - 1) * tube_radius * 2
layer3_len == (marbles_per_layer - 1) * tube_radius * 2 + tube_radius

layer1_height == Mul(layer1_len, slope)
layer2_height == Mul(layer2_len, slope)
layer3_height == Mul(layer3_len, slope)

outlet_start_y == 0
outlet_start_z == 0
outlet_end_y == outlet_length
outlet_end_z == 0

layer1_start_y == outlet_end_y
layer1_start_z == outlet_end_z
layer1_end_y == outlet_end_y + layer1_len
layer1_end_z == layer1_height

turn1_apex_y == layer1_end_y + turn_radius
turn1_apex_z == layer1_end_z + turn_radius

layer2_start_y == layer1_end_y
layer2_start_z == layer1_end_z + turn_radius * 2
layer2_end_y == layer2_start_y - layer2_len
(* bug: layer 2 runs towards -Y and its height gain is subtracted too *)
layer2_end_z_descending == layer2_start_z - layer2_height
layer2_end_z == layer2_start_z + layer2_height

turn2_apex_y == layer2_end_y - turn_radius
turn2_apex_z == layer2_end_z + turn_radius

layer3_start_y == layer2_end_y
layer3_start_z == layer2_end_z + turn_radius * 2
layer3_end_y == layer3_start_y + layer3_len
layer3_end_z == layer3_start_z + layer3_height

(* cq.Vector(x, y, z); a literal coordinate 1 is Scale on the grid *)
Vector(x, y, z) == <<x, y, z>>

makeLine(p, q) == [kind |-> "line", points |-> <<p, q>>]
makeSpline(pts, tgs) == [kind |-> "spline", points |-> pts, tangents |-> tgs]

(* bug: the end tangent of turn 1 keeps pointing towards +Y *)
turn1_unreversed ==
    makeSpline(
        <<Vector(0, layer1_end_y, layer1_end_z),
          Vector(0, turn1_apex_y, turn1_apex_z),
          Vector(0, layer2_start_y, layer2_start_z)>>,
        <<Vector(0, Scale, slope), Vector(0, 0, Scale), Vector(0, Scale, slope)>>)

turn1 ==
    makeSpline(
        <<Vector(0, layer1_end_y, layer1_end_z),
          Vector(0, turn1_apex_y, turn1_apex_z),
          Vector(0, layer2_start_y, layer2_start_z)>>,
        <<Vector(0, Scale, slope), Vector(0, 0, Scale), Vector(0, -Scale, slope)>>)

turn2 ==
    makeSpline(
        <<Vector(0, layer2_end_y, layer2_end_z),
          Vector(0, turn2_apex_y, turn2_apex_z),
          Vector(0, layer3_start_y, layer3_start_z)>>,
        <<Vector(0, -Scale, slope), Vector(0, 0, Scale), Vector(0, Scale, slope)>>)

(* bug: layer 2 starts at the end of layer 1, not at the end of turn 1 *)
edges_gap ==
    << makeLine(<<0, outlet_start_y, outlet_start_z>>, <<0, outlet_end_y, outlet_end_z>>),
       makeLine(<<0, layer1_start_y, layer1_start_z>>, <<0, layer1_end_y, layer1_end_z>>),
       turn1,
       makeLine(<<0, layer1_end_y, layer1_end_z>>, <<0, layer2_end_y, layer2_end_z>>),
       turn2,
       makeLine(<<0, layer3_start_y, layer3_start_z>>, <<0, layer3_end_y, layer3_end_z>>) >>

edges ==
    << makeLine(<<0, outlet_start_y, outlet_start_z>>, <<0, outlet_end_y, outlet_end_z>>),
       makeLine(<<0, layer1_start_y, layer1_start_z>>, <<0, layer1_end_y, layer1_end_z>>),
       turn1,
       makeLine(<<0, layer2_start_y, layer2_start_z>>, <<0, layer2_end_y, layer2_end_z>>),
       turn2,
       makeLine(<<0, layer3_start_y, layer3_start_z>>, <<0, layer3_end_y, layer3_end_z>>) >>

make_marble_path == edges

(* Edge.startPoint / Edge.endPoint: first and last control point *)
startPoint(e) == e.points[1]
endPoint(e) == e.points[Len(e.points)]

-----------------------------------------------------------------------------
(* Solids as point sets *)

Primitives == {"box", "ground", "groove", "windows",
               "ground|Z", "box>Z", "box|Z"}
Atoms == SUBSET Primitives

(* the points of a primitive solid; for an edge selector, the material a   *)
(* fillet of those edges rounds off                                        *)
Points(g) == {a \in Atoms : g \in a}

union(a, b) == a \cup b
cut(a, b) == a \ b
fillet(solid, selector) == [solid EXCEPT !.cells = @ \ Points(selector)]

-----------------------------------------------------------------------------
(* GROOVE SOLID *)

sphere_start_z == - Mul(350, tube_radius)

make_groove_solid(p) ==
    [cells |-> Points("groove"),
     path |-> p,
     sphere_start |-> <<0, 0, sphere_start_z>>,
     sphere_end |-> endPoint(p[Len(p)])]

(* The extent of the swept tube: the control points of the path and the    *)
(* two end spheres, inflated by tube_radius.                               *)
PathPoints(p) == UNION {{e.points[i] : i \in 1..Len(e.points)} : e \in {p[j] : j \in 1..Len(p)}}

Slacks == {0, 2 * Scale}

(* BoundingBox(): the kernel's box encloses the tube, not necessarily      *)
(* tightly; lo and hi are the slack it leaves below and above the tube on  *)
(* each axis.                                                              *)
BoundingBox(g, lo, hi) ==
    LET pts == PathPoints(g.path) \cup {g.sphere_start, g.sphere_end}
    IN  [xmin |-> Min({q[1] : q \in pts}) - tube_radius - lo,
         xmax |-> Max({q[1] : q \in pts}) + tube_radius + hi,
         ymin |-> Min({q[2] : q \in pts}) - tube_radius - lo,
         ymax |-> Max({q[2] : q \in pts}) + tube_radius + hi,
         zmin |-> Min({q[3] : q \in pts}) - tube_radius - lo,
         zmax |-> Max({q[3] : q \in pts}) + tube_radius + hi]

-----------------------------------------------------------------------------
(* WINDOWS: the locals of make_windows *)

w_layer1_len == marbles_per_layer * tube_radius * 2
w_layer2_len == (marbles_per_layer - 1) * tube_radius * 2
w_layer3_len == (marbles_per_layer - 1) * tube_radius * 2 + tube_radius

w_layer1_height == Mul(w_layer1_len, slope)
w_layer2_height == Mul(w_layer2_len, slope)
w_layer3_height == Mul(w_layer3_len, slope)

total_height == w_layer1_height + turn_radius * 2 + w_layer2_height + turn_radius * 2 + w_layer3_height

box_start_y == outlet_length
box_end_y == outlet_length + w_layer1_len + turn_radius
w_box_length == box_end_y - box_start_y

window_length == Mul(w_box_length, 800)
window_height == Mul(tube_radius, window_height_factor)
window_depth == tube_radius * 3

window_center_y == box_start_y + w_box_length \div 2

window_upper_z == (total_height * 5) \div 10
window_lower_z == w_layer1_height \div 2

window_fillet == window_height \div 2 - 100

turn2_z == w_layer1_height + turn_radius * 2 + w_layer2_height + Mul(800, turn_radius)

(* bug: the top of turn 1 instead of its apex *)
turn1_z_top == w_layer1_height + turn_radius * 2
turn1_z == w_layer1_height + turn_radius
turn1_y == outlet_length + w_layer1_len + turn_radius

(* Workplane.box(length, width, height) centred at the workplane offset *)
Box(offset, length, width, height, name) ==
    [center |-> offset, size |-> <<length, width, height>>, cells |-> Points(name)]

(* .edges("|Y").fillet(r) on a box: the four edges along Y are rounded in  *)
(* the X-Z cross-section; the kernel raises unless the radius is positive  *)
(* and fits in both cross-section dimensions.                              *)
FilletFeasibleY(b, r) == r > 0 /\ 2 * r <= b.size[1] /\ 2 * r <= b.size[3]

window_upper ==
    Box(<<0, window_center_y, window_upper_z>>,
        window_depth, window_length, window_height, "windows")

window_lower ==
    Box(<<0, window_center_y, window_lower_z>>,
        window_depth, window_length, window_height, "windows")

(* Workplane("XZ").workplane(offset).center(0, z).circle(r).extrude(d) *)
Port(offset, z, r, d) ==
    [offset |-> offset, center |-> <<0, z>>, radius |-> r, extrude |-> d,
     cells |-> Points("windows")]

window_front == Port(outlet_length, turn2_z, Mul(tube_radius, 700), - tube_radius * 4)
window_back == Port(- turn1_y, turn1_z, Mul(tube_radius, 700), - tube_radius * 4)

(* the two unguarded fillets of lines 169 and 179 *)
make_windows_raises ==
    \/ ~ FilletFeasibleY(window_upper, window_fillet)
    \/ ~ FilletFeasibleY(window_lower, window_fillet)

make_windows ==
    [upper |-> window_upper, lower |-> window_lower,
     front |-> window_front, back |-> window_back,
     fillet |-> window_fillet,
     cells |-> union(union(union(window_upper.cells, window_lower.cells),
                           window_front.cells), window_back.cells)]

-----------------------------------------------------------------------------
(* HOUSING: the locals of make_storage *)

box_length == bb.ymax - bb.ymin + 2 * wall_thickness - 2 * tube_radius
box_width == bb.xmax - bb.xmin + 2 * wall_thickness + Mul(200, tube_radius)
box_height == bb.zmax - bb.zmin + wall_thickness - Mul(1700, tube_radius)

box_center_x == (bb.xmax + bb.xmin) \div 2
box_center_y == (bb.ymax + bb.ymin + 2 * tube_radius) \div 2
box_center_z == (bb.zmax - Mul(1700, tube_radius) + bb.zmin) \div 2

ground_length == bb.ymax - bb.ymin + 2 * wall_thickness
ground_width == bb.xmax - bb.xmin + 2 * wall_thickness + 1 * tube_radius
ground_height == Mul(1200, tube_radius)

ground_center_x == (bb.xmax + bb.xmin) \div 2
(* bug: the upper box's shifted centre copied to the ground plate *)
ground_center_y_shifted == (bb.ymax + bb.ymin + 2 * tube_radius) \div 2
ground_center_y == (bb.ymax + bb.ymin) \div 2
ground_center_z == - Mul(900, tube_radius)

-----------------------------------------------------------------------------
(* The script *)

Init ==
    /\ marble_radius \in MarbleRadii
    /\ clearance \in Clearances
    /\ marbles_per_layer \in MarblesPerLayer
    /\ slope \in Slopes
    /\ turn_factor \in TurnFactors
    /\ outlet_factor \in OutletFactors
    /\ wall_thickness \in WallThicknesses
    /\ enable_fillet \in BOOLEAN
    /\ fillet_radius \in FilletRadii
    /\ enable_windows \in BOOLEAN
    /\ window_height_factor \in WindowHeightFactors
    /\ pc = "make_marble_path"
    /\ path = None
    /\ groove = None
    /\ bb = None
    /\ box = None
    /\ ground = None
    /\ result = None
    /\ storage = None
    /\ windows = None
    /\ trace = << >>
    /\ failed = {}

(* line 276: path = make_marble_path() *)
BuildPath ==
    /\ pc = "make_marble_path"
    /\ path' = make_marble_path
    /\ pc' = "make_groove_solid"
    /\ UNCHANGED <<params, groove, bb, box, ground, result, storage, windows, trace, failed>>

(* line 277: groove = make_groove_solid(path) *)
BuildGroove ==
    /\ pc = "make_groove_solid"
    /\ groove' = make_groove_solid(path)
    /\ pc' = "make_storage"
    /\ UNCHANGED <<params, path, bb, box, ground, result, storage, windows, trace, failed>>

(* line 215: bb = groove.val().BoundingBox() *)
StorageBoundingBox ==
    /\ pc = "make_storage"
    /\ \E lo \in Slacks, hi \in Slacks :
          bb' = BoundingBox(groove, lo, hi)
    /\ pc' = "boxes"
    /\ UNCHANGED <<params, path, groove, box, ground, result, storage, windows, trace, failed>>

(* lines 217-245: the upper box and the ground plate *)
StorageBoxes ==
    /\ pc = "boxes"
    /\ box' = Box(<<box_center_x, box_center_y, box_center_z>>,
                  box_width, box_length, box_height, "box")
    /\ ground' = Box(<<ground_center_x, ground_center_y, ground_center_z>>,
                     ground_width, ground_length, ground_height, "ground")
    /\ pc' = IF enable_fillet THEN "fillet ground|Z" ELSE "union"
    /\ UNCHANGED <<params, path, groove, bb, result, storage, windows, trace, failed>>

(* try: solid = solid.edges(selector).fillet(fillet_radius) / except: pass *)
(* ok is the kernel's outcome: the fillet is built, or it raises.          *)
(* bug: a failed attempt leaves nothing of the solid *)
TryFillet_clobber(solid, selector, ok) ==
    IF ok THEN fillet(solid, selector) ELSE [solid EXCEPT !.cells = {}]

TryFillet(solid, selector, ok) == IF ok THEN fillet(solid, selector) ELSE solid

(* lines 248-251 *)
FilletGround ==
    /\ pc = "fillet ground|Z"
    /\ \E ok \in BOOLEAN :
          /\ ground' = TryFillet(ground, "ground|Z", ok)
          /\ failed' = IF ok THEN failed ELSE failed \cup {"ground|Z"}
    /\ trace' = Append(trace, "fillet ground|Z")
    /\ pc' = "fillet box>Z"
    /\ UNCHANGED <<params, path, groove, bb, box, result, storage, windows>>

(* lines 253-256 *)
FilletBoxTop ==
    /\ pc = "fillet box>Z"
    /\ \E ok \in BOOLEAN :
          /\ box' = TryFillet(box, "box>Z", ok)
          /\ failed' = IF ok THEN failed ELSE failed \cup {"box>Z"}
    /\ trace' = Append(trace, "fillet box>Z")
    /\ pc' = "fillet box|Z"
    /\ UNCHANGED <<params, path, groove, bb, ground, result, storage, windows>>

(* lines 258-261 *)
FilletBoxVertical ==
    /\ pc = "fillet box|Z"
    /\ \E ok \in BOOLEAN :
          /\ box' = TryFillet(box, "box|Z", ok)
          /\ failed' = IF ok THEN failed ELSE failed \cup {"box|Z"}
    /\ trace' = Append(trace, "fillet box|Z")
    /\ pc' = "union"
    /\ UNCHANGED <<params, path, groove, bb, ground, result, storage, windows>>

(* bug: box.cut(groove).union(ground), the cut before the union *)
Union_after_cut ==
    /\ pc = "union"
    /\ result' = union(cut(box.cells, groove.cells), ground.cells)
    /\ trace' = trace \o <<"cut groove", "union">>
    /\ pc' = "windows"
    /\ UNCHANGED <<params, path, groove, bb, box, ground, storage, windows, failed>>

(* line 263, first call: box.union(ground) *)
Union ==
    /\ pc = "union"
    /\ result' = union(box.cells, ground.cells)
    /\ trace' = Append(trace, "union")
    /\ pc' = "cut groove"
    /\ UNCHANGED <<params, path, groove, bb, box, ground, storage, windows, failed>>

(* line 263, second call: .cut(groove) *)
CutGroove ==
    /\ pc = "cut groove"
    /\ result' = cut(result, groove.cells)
    /\ trace' = Append(trace, "cut groove")
    /\ pc' = "windows"
    /\ UNCHANGED <<params, path, groove, bb, box, ground, storage, windows, failed>>

(* bug: the windows are cut whatever enable_windows says *)
CutWindows_unconditional ==
    /\ pc = "windows"
    /\ IF make_windows_raises
         THEN /\ pc' = "raised"
              /\ UNCHANGED <<result, trace>>
         ELSE /\ result' = cut(result, make_windows.cells)
              /\ trace' = Append(trace, "cut windows")
              /\ pc' = "return"
    /\ UNCHANGED <<params, path, groove, bb, box, ground, storage, windows, failed>>

(* lines 265-268.  A Workplane defines neither __bool__ nor __len__, so    *)
(* "if windows:" is taken whenever make_windows() returned.                *)
CutWindows ==
    /\ pc = "windows"
    /\ IF ~ enable_windows
         THEN /\ pc' = "return"
              /\ UNCHANGED <<result, trace>>
         ELSE IF make_windows_raises
                THEN /\ pc' = "raised"
                     /\ UNCHANGED <<result, trace>>
                ELSE /\ result' = cut(result, make_windows.cells)
                     /\ trace' = Append(trace, "cut windows")
                     /\ pc' = "return"
    /\ UNCHANGED <<params, path, groove, bb, box, ground, storage, windows, failed>>

(* line 270 and line 278: storage = make_storage(groove) *)
Return ==
    /\ pc = "return"
    /\ storage' = result
    /\ pc' = "make_windows"
    /\ UNCHANGED <<params, path, groove, bb, box, ground, result, windows, trace, failed>>

(* line 279: windows = make_windows() *)
BuildWindows ==
    /\ pc = "make_windows"
    /\ IF make_windows_raises
         THEN pc' = "raised" /\ UNCHANGED windows
         ELSE pc' = "done" /\ windows' = make_windows
    /\ UNCHANGED <<params, path, groove, bb, box, ground, result, storage, trace, failed>>

make_storage ==
    \/ StorageBoundingBox
    \/ StorageBoxes
    \/ FilletGround
    \/ FilletBoxTop
    \/ FilletBoxVertical
    \/ Union
    \/ CutGroove
    \/ CutWindows
    \/ Return

Next ==
    \/ BuildPath
    \/ BuildGroove
    \/ make_storage
    \/ BuildWindows

Spec == Init /\ [][Next]_vars

(* positions of the script *)
InFillets == {"fillet ground|Z", "fillet box>Z", "fillet box|Z"}
HasBoxes == InFillets \cup {"union", "cut groove", "windows", "return", "make_windows", "done", "raised"}

-----------------------------------------------------------------------------
(* Sanity of the number grid: the divisions the model performs are exact,  *)
(* so fixed-point values equal the real values the code computes.          *)
Exact(a, b) == (a * b) % Scale = 0

ArithmeticExact ==
    /\ Exact(tube_radius, turn_factor)
    /\ Exact(tube_radius, outlet_factor)
    /\ Exact(layer1_len, slope) /\ Exact(layer2_len, slope) /\ Exact(layer3_len, slope)
    /\ Exact(350, tube_radius) /\ Exact(w_box_length, 800)
    /\ Exact(tube_radius, window_height_factor)
    /\ w_box_length % 2 = 0 /\ (total_height * 5) % 10 = 0
    /\ w_layer1_height % 2 = 0 /\ window_height % 2 = 0
    /\ Exact(800, turn_radius) /\ Exact(tube_radius, 700)
    /\ Exact(200, tube_radius) /\ Exact(1700, tube_radius)
    /\ Exact(1200, tube_radius) /\ Exact(900, tube_radius)
    /\ pc \in HasBoxes \cup {"boxes"} =>
         /\ (bb.xmax + bb.xmin) % 2 = 0
         /\ (bb.ymax + bb.ymin) % 2 = 0
         /\ (bb.zmax - Mul(1700, tube_radius) + bb.zmin) % 2 = 0

-----------------------------------------------------------------------------
(* Properties of the path *)

PathBuilt == pc # "make_marble_path"

(* the ordered control points of the path, edge by edge *)
RECURSIVE ControlPoints(_)
ControlPoints(p) == IF p = << >> THEN << >> ELSE Head(p).points \o ControlPoints(Tail(p))

Direction(e) == [k \in 1..3 |-> endPoint(e)[k] - startPoint(e)[k]]

(* t is a positive multiple of d, both in the Y-Z plane *)
PositiveMultiple(t, d) ==
    /\ t[1] = 0 /\ d[1] = 0
    /\ t[2] * d[3] - t[3] * d[2] = 0
    /\ t[2] * d[2] + t[3] * d[3] > 0

\* C1: the six edges assembled by make_marble_path (outlet, layer 1, turn 1,
\* layer 2, turn 2, layer 3) form one chain starting at the origin: each
\* edge ends where the next one starts.
C1_PathContinuous ==
    PathBuilt =>
        /\ Len(path) = 6
        /\ [i \in 1..6 |-> path[i].kind] = <<"line", "line", "spline", "line", "spline", "line">>
        /\ startPoint(path[1]) = <<0, 0, 0>>
        /\ \A i \in 1..5 : endPoint(path[i]) = startPoint(path[i + 1])

C1_Witness ==
    /\ pc = "done"
    /\ marbles_per_layer >= 2
    /\ \A i \in 1..6 : endPoint(path[i]) # startPoint(path[i])

\* C2: the height of the control points never decreases along the path,
\* from the outlet start to the end of layer 3.
C2_HeightNonDecreasing ==
    PathBuilt =>
        LET cp == ControlPoints(path)
        IN  /\ Len(cp) = 14
            /\ \A i \in 1..(Len(cp) - 1) : cp[i][3] <= cp[i + 1][3]

C2_Witness ==
    /\ pc = "done"
    /\ marbles_per_layer >= 2
    /\ endPoint(path[4])[3] > startPoint(path[4])[3]
    /\ endPoint(path[6])[3] > startPoint(path[1])[3]

(* run of a straight edge along the travel axis, and its height gain *)
Run(e) == IF endPoint(e)[2] >= startPoint(e)[2]
            THEN endPoint(e)[2] - startPoint(e)[2]
            ELSE startPoint(e)[2] - endPoint(e)[2]
Gain(e) == endPoint(e)[3] - startPoint(e)[3]

LayerGainsAreLengthTimesSlope ==
    /\ Gain(path[2]) = Mul(Run(path[2]), slope)
    /\ Gain(path[4]) = Mul(Run(path[4]), slope)
    /\ Gain(path[6]) = Mul(Run(path[6]), slope)

\* C3 (as claimed): layer 1 runs marbles_per_layer tube diameters, layers 2
\* and 3 each run exactly one tube diameter fewer, and each layer gains its
\* length times slope.
C3_Layer3OneDiameterFewer ==
    PathBuilt =>
        /\ Run(path[2]) = marbles_per_layer * 2 * tube_radius
        /\ Run(path[4]) = (marbles_per_layer - 1) * 2 * tube_radius
        /\ Run(path[6]) = (marbles_per_layer - 1) * 2 * tube_radius
        /\ LayerGainsAreLengthTimesSlope

\* C3 (amended): layer 1 runs marbles_per_layer tube diameters, layer 2 one
\* diameter fewer, layer 3 one diameter fewer plus one tube radius; each
\* layer gains its length times slope; make_windows recomputes the same
\* lengths and gains.
C3_LayerLengths ==
    PathBuilt =>
        /\ Run(path[2]) = marbles_per_layer * 2 * tube_radius
        /\ Run(path[4]) = (marbles_per_layer - 1) * 2 * tube_radius
        /\ Run(path[6]) = (marbles_per_layer - 1) * 2 * tube_radius + tube_radius
        /\ LayerGainsAreLengthTimesSlope
        /\ <<w_layer1_len, w_layer2_len, w_layer3_len>> = <<Run(path[2]), Run(path[4]), Run(path[6])>>
        /\ <<w_layer1_height, w_layer2_height, w_layer3_height>> = <<Gain(path[2]), Gain(path[4]), Gain(path[6])>>

C3_Witness ==
    /\ pc = "done"
    /\ marbles_per_layer >= 2
    /\ Run(path[6]) = Run(path[4]) + tube_radius
    /\ Gain(path[6]) > Gain(path[4])

\* C9: with at least two marbles per layer, at each of the four junctions
\* between a layer and a turn the tangent prescribed for the turn is a
\* positive multiple of the adjacent layer's direction, and the tangent at
\* each apex is purely vertical.
C9_TangentsFollowLayers ==
    (PathBuilt /\ marbles_per_layer >= 2) =>
        /\ PositiveMultiple(path[3].tangents[1], Direction(path[2]))
        /\ PositiveMultiple(path[3].tangents[3], Direction(path[4]))
        /\ PositiveMultiple(path[5].tangents[1], Direction(path[4]))
        /\ PositiveMultiple(path[5].tangents[3], Direction(path[6]))
        /\ \A k \in {3, 5} :
              /\ path[k].tangents[2][1] = 0
              /\ path[k].tangents[2][2] = 0
              /\ path[k].tangents[2][3] > 0

C9_Witness ==
    /\ pc = "done"
    /\ marbles_per_layer >= 2
    /\ Direction(path[4])[2] < 0
    /\ Direction(path[4])[3] > 0
    /\ path[3].tangents[3][2] < 0

-----------------------------------------------------------------------------
(* Properties of the windows and the housing *)

Returned == {"make_windows", "done"}

\* C7 (as claimed): both cylindrical ports are centred at the apex heights
\* of the two turns: the back port at turn 1's apex, the front port at
\* turn 2's apex.
C7_PortsAtApexHeights ==
    pc = "done" =>
        /\ windows.back.center[2] = path[3].points[2][3]
        /\ windows.front.center[2] = path[5].points[2][3]

\* C7 (amended): the back port is centred at turn 1's apex height; the
\* front port is centred 0.8 x turn_radius above the end of layer 2, which
\* is 0.2 x turn_radius below turn 2's apex.
C7_PortHeights ==
    pc = "done" =>
        /\ windows.back.center[2] = path[3].points[2][3]
        /\ windows.front.center[2] = endPoint(path[4])[3] + Mul(800, turn_radius)
        /\ windows.front.center[2] = path[5].points[2][3] - Mul(200, turn_radius)

C7_Witness ==
    /\ pc = "done"
    /\ windows.back.center[2] = turn1_apex_z
    /\ windows.front.center[2] < turn2_apex_z
    /\ windows.front.center[2] > layer2_end_z

\* C8 (as claimed): the base box extends the bounding box by wall_thickness
\* on each side in x and in y, is centred on it in x and y, is
\* 1.2 x tube_radius high and centred at height -0.9 x tube_radius.
C8_BaseBoxIsBoundingBoxPlusWalls ==
    pc \in HasBoxes =>
        /\ ground.size[1] = (bb.xmax - bb.xmin) + 2 * wall_thickness
        /\ ground.size[2] = (bb.ymax - bb.ymin) + 2 * wall_thickness
        /\ 2 * ground.center[1] = bb.xmax + bb.xmin
        /\ 2 * ground.center[2] = bb.ymax + bb.ymin
        /\ ground.size[3] = Mul(1200, tube_radius)
        /\ ground.center[3] = - Mul(900, tube_radius)

\* C8 (amended): the base box extends the bounding box by wall_thickness on
\* each side in y, and by wall_thickness plus half a tube radius on each
\* side in x (extent + 2 x wall_thickness + tube_radius); it is centred on
\* the bounding box in x and y, 1.2 x tube_radius high and centred at
\* height -0.9 x tube_radius.
C8_BaseBoxExtents ==
    pc \in HasBoxes =>
        /\ ground.size[1] = (bb.xmax - bb.xmin) + 2 * wall_thickness + tube_radius
        /\ ground.size[2] = (bb.ymax - bb.ymin) + 2 * wall_thickness
        /\ 2 * ground.center[1] = bb.xmax + bb.xmin
        /\ 2 * ground.center[2] = bb.ymax + bb.ymin
        /\ ground.size[3] = Mul(1200, tube_radius)
        /\ ground.center[3] = - Mul(900, tube_radius)

C8_Witness ==
    /\ pc = "union"
    /\ bb.xmax + bb.xmin # 0
    /\ ground.center[1] # 0
    /\ ground.size[1] > bb.xmax - bb.xmin + 2 * wall_thickness

\* C10: make_windows never fails for tube_radius > 0 and
\* window_height_factor > 0: the window fillet radius window_height/2 - 0.1
\* is positive and at most half of window_height and of window_depth
\* whenever make_windows is called, so no run ends in the fillet raising.
C10_WindowFilletAlwaysFeasible ==
    (tube_radius > 0 /\ window_height_factor > 0) =>
        /\ pc # "raised"
        /\ ((pc = "windows" /\ enable_windows) \/ pc = "make_windows") =>
              /\ window_fillet > 0
              /\ 2 * window_fillet <= window_height
              /\ 2 * window_fillet <= window_depth

(* the fillets that were applied, and the box they leave *)
Applied(selector) == enable_fillet /\ selector \notin failed
Filleted(name, selectors) ==
    Points(name) \ UNION {Points(sel) : sel \in {x \in selectors : Applied(x)}}

\* C4: with windows disabled make_storage returns the solid a run with
\* windows enabled holds just before its window subtraction, (filleted upper
\* box union base box) minus the tube; with windows enabled it returns that
\* solid minus the window cutouts, a subset of it.
C4_WindowsOnlySubtract ==
    pc \in {"return"} \cup Returned =>
        LET before == ((Filleted("box", {"box>Z", "box|Z"})
                          \cup Filleted("ground", {"ground|Z"}))
                          \ Points("groove"))
        IN  /\ before = (box.cells \cup ground.cells) \ groove.cells
            /\ ~ enable_windows => result = before
            /\ enable_windows => result = before \ Points("windows")
            /\ result \subseteq before

C4_Witness ==
    /\ pc = "done"
    /\ ~ enable_windows
    /\ storage \cap windows.cells # {}
    /\ storage = (box.cells \cup ground.cells) \ groove.cells

Successor(p) ==
    CASE p = "fillet ground|Z" -> "fillet box>Z"
      [] p = "fillet box>Z" -> "fillet box|Z"
      [] p = "fillet box|Z" -> "union"

IsFillet(op) == op \in InFillets

\* C5: each of the three fillet attempts is made when enable_fillet is true,
\* a failing attempt leaves both boxes as they were, the next statement is
\* reached whatever the outcome, and the union and the cut follow; with
\* enable_fillet false no fillet is attempted.
C5_FilletsIndependent ==
    [][ /\ pc \in InFillets =>
              /\ pc' = Successor(pc)
              /\ trace' = Append(trace, pc)
              /\ failed' # failed => (box' = box /\ ground' = ground)
        /\ pc' = "union" =>
              SelectSeq(trace', IsFillet) =
                 IF enable_fillet
                   THEN <<"fillet ground|Z", "fillet box>Z", "fillet box|Z">>
                   ELSE << >>
        /\ pc' \in {"windows", "return"} \cup Returned =>
              /\ SelectSeq(trace', LAMBDA op : op \in {"union", "cut groove"}) = <<"union", "cut groove">>
              /\ ~ enable_fillet => failed' = {} /\ SelectSeq(trace', IsFillet) = << >>
      ]_vars

C5_Witness ==
    /\ pc = "done"
    /\ enable_fillet
    /\ failed = {"ground|Z", "box>Z"}
    /\ ground.cells = Points("ground")
    /\ box.cells = Points("box") \ Points("box|Z")
    /\ box.cells # Points("box")

OrderedInTrace ==
    /\ \A i, j \in DOMAIN trace :
          (IsFillet(trace[i]) /\ ~ IsFillet(trace[j])) => i < j
    /\ \A i, j \in DOMAIN trace :
          (trace[i] = "union" /\ trace[j] \in {"cut groove", "cut windows"}) => i < j
    /\ \A i, j \in DOMAIN trace :
          (trace[i] = "cut groove" /\ trace[j] = "cut windows") => i < j

Composed == (box.cells \cup ground.cells) \ groove.cells

\* C6 (as claimed): in every run the fillets precede the union, the union
\* precedes the tube cut, the tube cut precedes the window cut, and the
\* result is (UpperBox union BaseBox) minus TubeSolid minus WindowCutouts.
C6_ResultAlwaysMinusWindows ==
    /\ OrderedInTrace
    /\ pc \in Returned => storage = Composed \ make_windows.cells

\* C6 (amended): the fillets precede the union, the union precedes the tube
\* cut, and the tube cut precedes the window cut; the result is
\* (UpperBox union BaseBox) minus TubeSolid minus WindowCutouts when
\* enable_windows is true, and (UpperBox union BaseBox) minus TubeSolid,
\* with no window subtraction, when it is false.
C6_CompositionOrder ==
    /\ OrderedInTrace
    /\ pc \in Returned =>
          /\ SelectSeq(trace, LAMBDA op : ~ IsFillet(op)) =
                IF enable_windows THEN <<"union", "cut groove", "cut windows">>
                                  ELSE <<"union", "cut groove">>
          /\ storage = IF enable_windows THEN Composed \ make_windows.cells
                                         ELSE Composed

C6_Witness ==
    /\ pc = "done"
    /\ enable_windows /\ enable_fillet
    /\ failed = {}
    /\ Len(trace) = 6
    /\ storage # Composed

====
